---- MODULE Spec2Model ----
(***************************************************************************)
(* Model of the sandwich detector: the PatternTracker state machine and    *)
(* Pattern (src/src/types.rs), the tip detector and the swap extractor     *)
(* (src/src/main.rs).                                                      *)
(***************************************************************************)
EXTENDS Integers, Sequences, FiniteSets, TLC

VARIABLES
    open_positions,   \* PatternTracker.open_positions : sandwich_acc -> create tx
    in_progress,      \* PatternTracker.in_progress    : sandwich_acc -> <<create, swap_in>>
    completed,        \* PatternTracker.completed      : sequence of Pattern
    hist,             \* the classified transactions handed to process_transaction so far
    account_keys,     \* detect_jito_tip: account_keys
    pre_balances,     \* detect_jito_tip: pre_balances
    post_balances,    \* detect_jito_tip: post_balances
    tip_i,            \* detect_jito_tip: the loop index i (1-based here)
    total_tip,        \* detect_jito_tip: total_tip
    tip_pc,           \* detect_jito_tip: "idle" (not called), "loop", "done" (returned)
    swap_input,       \* find_token_accounts: its arguments
    swap_runs,        \* find_token_accounts: the results of the runs made on swap_input
    known_tx,         \* find_known_instruction: the decoded transaction, its meta, the block
    found_txs,        \* find_known_instruction: found_txs
    processed_types,  \* find_known_instruction: processed_types
    ix_i,             \* find_known_instruction: position in "for ix in &instructions" (1-based)
    known_pc          \* find_known_instruction: "idle", "start", "loop", "done", "panic"

trackerVars == <<open_positions, in_progress, completed, hist>>

tipVars == <<account_keys, pre_balances, post_balances, tip_i, total_tip, tip_pc>>

swapVars == <<swap_input, swap_runs>>

knownVars == <<known_tx, found_txs, processed_types, ix_i, known_pc>>

vars == <<open_positions, in_progress, completed, hist,
          account_keys, pre_balances, post_balances, tip_i, total_tip, tip_pc,
          swap_input, swap_runs,
          known_tx, found_txs, processed_types, ix_i, known_pc>>

\* ---------------------------------------------------------------- bounds
MaxSteps == 4        \* transactions fed to one tracker (key / signer / height / time universes)
MaxMintSteps == 3    \* transactions fed to one tracker (mint / amount universe)
MaxClearSteps == 6   \* transactions fed to one tracker whose completed list is also cleared
MaxFailSteps == 5    \* transactions fed to one tracker (block-time / empty-mint universe)
MaxTipAccounts == 2  \* account keys of a transaction handed to detect_jito_tip
MaxTokenAccounts == 3 \* token accounts an instruction handed to find_token_accounts refers to
MaxKeys == 2         \* account keys of a transaction handed to find_known_instruction
MaxInstructions == 2 \* instructions of a transaction handed to find_known_instruction

\* ------------------------------------------------------------- Option<T>
\* Rust Option<u64>: None is the empty tuple, Some(x) the 1-tuple <<x>>
None == <<>>

Some(x) == <<x>>

\* derived PartialOrd of Option<u64>: None < Some(_), Some(a) vs Some(b) by value
OptionGt(a, b) == a # None /\ (b = None \/ a[1] > b[1])

\* --------------------------------------------------- ClassifiedTransaction
\* ClassifiedTransaction::new(): every field at its default
NewClassifiedTransaction ==
    [ signature        |-> "",
      signer           |-> "",
      block_height     |-> 0,
      block_time       |-> None,
      instruction_type |-> "",
      sandwich_acc     |-> "",
      swapper          |-> "",
      from_mint        |-> "",
      to_mint          |-> "",
      from_amount      |-> 0,
      to_amount        |-> 0,
      jito_tip_amount  |-> 0,
      wsol_change      |-> None,
      lamport_change   |-> 0,
      decimals         |-> 9 ]

\* ---------------------------------------------------------------- Pattern
\* the "no pattern" result of Pattern::new (Option<Pattern>::None)
NoPattern == [none |-> TRUE]

\* Pattern::new without the block_time sequence check
PatternNewNoTimeCheck(create_tx, swap_in_tx, swap_out_tx) ==
    IF create_tx.sandwich_acc # swap_in_tx.sandwich_acc
         \/ swap_in_tx.sandwich_acc # swap_out_tx.sandwich_acc
    THEN NoPattern
    ELSE IF swap_in_tx.from_mint = "" /\ swap_out_tx.from_mint = ""
    THEN NoPattern
    ELSE [ token        |-> IF swap_in_tx.from_mint # "" THEN swap_in_tx.from_mint
                            ELSE swap_out_tx.from_mint,
           attacker     |-> create_tx.signer,
           victim       |-> Some(swap_in_tx.swapper),
           transactions |-> <<create_tx, swap_in_tx, swap_out_tx>> ]

\* Pattern::new taking the token from the swap-out leg first
PatternNewTokenFromSwapOut(create_tx, swap_in_tx, swap_out_tx) ==
    IF create_tx.sandwich_acc # swap_in_tx.sandwich_acc
         \/ swap_in_tx.sandwich_acc # swap_out_tx.sandwich_acc
    THEN NoPattern
    ELSE IF OptionGt(create_tx.block_time, swap_in_tx.block_time)
              \/ OptionGt(swap_in_tx.block_time, swap_out_tx.block_time)
    THEN NoPattern
    ELSE IF swap_in_tx.from_mint = "" /\ swap_out_tx.from_mint = ""
    THEN NoPattern
    ELSE [ token        |-> IF swap_out_tx.from_mint # "" THEN swap_out_tx.from_mint
                            ELSE swap_in_tx.from_mint,
           attacker     |-> create_tx.signer,
           victim       |-> Some(swap_in_tx.swapper),
           transactions |-> <<create_tx, swap_in_tx, swap_out_tx>> ]

\* Pattern::new
PatternNew(create_tx, swap_in_tx, swap_out_tx) ==
    IF create_tx.sandwich_acc # swap_in_tx.sandwich_acc
         \/ swap_in_tx.sandwich_acc # swap_out_tx.sandwich_acc
    THEN NoPattern
    ELSE IF OptionGt(create_tx.block_time, swap_in_tx.block_time)
              \/ OptionGt(swap_in_tx.block_time, swap_out_tx.block_time)
    THEN NoPattern
    ELSE IF swap_in_tx.from_mint = "" /\ swap_out_tx.from_mint = ""
    THEN NoPattern
    ELSE [ token        |-> IF swap_in_tx.from_mint # "" THEN swap_in_tx.from_mint
                            ELSE swap_out_tx.from_mint,
           attacker     |-> create_tx.signer,
           victim       |-> Some(swap_in_tx.swapper),
           transactions |-> <<create_tx, swap_in_tx, swap_out_tx>> ]

\* Pattern::is_valid without the same-block check
IsValidNoHeightCheck(p) ==
    LET create_tx   == p.transactions[1]
        swap_in_tx  == p.transactions[2]
        swap_out_tx == p.transactions[3]
    IN  /\ ~(create_tx.sandwich_acc # swap_in_tx.sandwich_acc
              \/ swap_in_tx.sandwich_acc # swap_out_tx.sandwich_acc)
        /\ ~(swap_in_tx.from_mint # swap_in_tx.to_mint
              \/ swap_out_tx.from_mint # swap_out_tx.to_mint)

\* Pattern::is_valid without the per-leg mint check
IsValidNoMintCheck(p) ==
    LET create_tx   == p.transactions[1]
        swap_in_tx  == p.transactions[2]
        swap_out_tx == p.transactions[3]
    IN  /\ ~(create_tx.sandwich_acc # swap_in_tx.sandwich_acc
              \/ swap_in_tx.sandwich_acc # swap_out_tx.sandwich_acc)
        /\ ~(create_tx.block_height # swap_in_tx.block_height
              \/ swap_in_tx.block_height # swap_out_tx.block_height)

\* Pattern::is_valid
is_valid(p) ==
    LET create_tx   == p.transactions[1]
        swap_in_tx  == p.transactions[2]
        swap_out_tx == p.transactions[3]
    IN  /\ ~(create_tx.sandwich_acc # swap_in_tx.sandwich_acc
              \/ swap_in_tx.sandwich_acc # swap_out_tx.sandwich_acc)
        /\ ~(create_tx.block_height # swap_in_tx.block_height
              \/ swap_in_tx.block_height # swap_out_tx.block_height)
        /\ ~(swap_in_tx.from_mint # swap_in_tx.to_mint
              \/ swap_out_tx.from_mint # swap_out_tx.to_mint)

\* Pattern::get_token_profit with the operands of the subtraction exchanged
GetTokenProfitSwapped(p) ==
    IF ~is_valid(p) THEN 0
    ELSE p.transactions[2].from_amount - p.transactions[3].from_amount

\* Pattern::get_token_profit (u64 operands widened to i128: the difference never overflows)
get_token_profit(p) ==
    IF ~is_valid(p) THEN 0
    ELSE p.transactions[3].from_amount - p.transactions[2].from_amount

\* ---------------------------------------------------------- PatternTracker
\* HashMap::insert(k, v): insert or overwrite
MapInsert(m, k, v) == [x \in (DOMAIN m) \cup {k} |-> IF x = k THEN v ELSE m[x]]

\* HashMap::remove(k): the map without k
MapRemove(m, k) == [x \in (DOMAIN m) \ {k} |-> m[x]]

\* PatternTracker::new(): both maps and the completed list empty
TrackerInit ==
    /\ open_positions = <<>>
    /\ in_progress = <<>>
    /\ completed = <<>>
    /\ hist = <<>>

\* "CreateSandwichV2" arm keeping an older unmatched Create instead of overwriting it
ProcessCreateKeepFirst(tx) ==
    /\ tx.instruction_type = "CreateSandwichV2"
    /\ open_positions' = IF tx.sandwich_acc \in DOMAIN open_positions
                         THEN open_positions
                         ELSE MapInsert(open_positions, tx.sandwich_acc, tx)
    /\ hist' = Append(hist, tx)
    /\ UNCHANGED <<in_progress, completed>>

\* process_transaction, "CreateSandwichV2" arm
ProcessCreate(tx) ==
    /\ tx.instruction_type = "CreateSandwichV2"
    /\ open_positions' = MapInsert(open_positions, tx.sandwich_acc, tx)
    /\ hist' = Append(hist, tx)
    /\ UNCHANGED <<in_progress, completed>>

\* "AutoSwapIn" arm that pairs the Create and leaves it in the open map
ProcessSwapInKeepsOpen(tx) ==
    /\ tx.instruction_type = "AutoSwapIn"
    /\ IF tx.sandwich_acc \in DOMAIN open_positions
       THEN /\ open_positions' = open_positions
            /\ in_progress' = MapInsert(in_progress, tx.sandwich_acc,
                                        <<open_positions[tx.sandwich_acc], tx>>)
       ELSE UNCHANGED <<open_positions, in_progress>>
    /\ hist' = Append(hist, tx)
    /\ UNCHANGED completed

\* "AutoSwapIn" arm that never replaces a pair already pending for the key
ProcessSwapInKeepsPending(tx) ==
    /\ tx.instruction_type = "AutoSwapIn"
    /\ IF tx.sandwich_acc \in DOMAIN open_positions
       THEN /\ open_positions' = MapRemove(open_positions, tx.sandwich_acc)
            /\ in_progress' = IF tx.sandwich_acc \in DOMAIN in_progress
                              THEN in_progress
                              ELSE MapInsert(in_progress, tx.sandwich_acc,
                                             <<open_positions[tx.sandwich_acc], tx>>)
       ELSE UNCHANGED <<open_positions, in_progress>>
    /\ hist' = Append(hist, tx)
    /\ UNCHANGED completed

\* process_transaction, "AutoSwapIn" arm
ProcessSwapIn(tx) ==
    /\ tx.instruction_type = "AutoSwapIn"
    /\ IF tx.sandwich_acc \in DOMAIN open_positions
       THEN /\ open_positions' = MapRemove(open_positions, tx.sandwich_acc)
            /\ in_progress' = MapInsert(in_progress, tx.sandwich_acc,
                                        <<open_positions[tx.sandwich_acc], tx>>)
       ELSE UNCHANGED <<open_positions, in_progress>>
    /\ hist' = Append(hist, tx)
    /\ UNCHANGED completed

\* "AutoSwapOut" arm that falls back to the open map when nothing is pending for the key
ProcessSwapOutFromOpen(tx) ==
    /\ tx.instruction_type = "AutoSwapOut"
    /\ IF tx.sandwich_acc \in DOMAIN in_progress
       THEN /\ in_progress' = MapRemove(in_progress, tx.sandwich_acc)
            /\ open_positions' = open_positions
            /\ LET pair    == in_progress[tx.sandwich_acc]
                   pattern == PatternNew(pair[1], pair[2], tx)
               IN  completed' = IF pattern # NoPattern THEN Append(completed, pattern)
                                ELSE completed
       ELSE IF tx.sandwich_acc \in DOMAIN open_positions
       THEN /\ open_positions' = MapRemove(open_positions, tx.sandwich_acc)
            /\ in_progress' = in_progress
            /\ LET create_tx == open_positions[tx.sandwich_acc]
                   pattern   == PatternNew(create_tx, tx, tx)
               IN  completed' = IF pattern # NoPattern THEN Append(completed, pattern)
                                ELSE completed
       ELSE UNCHANGED <<open_positions, in_progress, completed>>
    /\ hist' = Append(hist, tx)

\* "AutoSwapOut" arm that also drops the key's unmatched Create from the open map
ProcessSwapOutClearsOpen(tx) ==
    /\ tx.instruction_type = "AutoSwapOut"
    /\ IF tx.sandwich_acc \in DOMAIN in_progress
       THEN /\ in_progress' = MapRemove(in_progress, tx.sandwich_acc)
            /\ LET pair    == in_progress[tx.sandwich_acc]
                   pattern == PatternNew(pair[1], pair[2], tx)
               IN  completed' = IF pattern # NoPattern THEN Append(completed, pattern)
                                ELSE completed
       ELSE UNCHANGED <<in_progress, completed>>
    /\ hist' = Append(hist, tx)
    /\ open_positions' = MapRemove(open_positions, tx.sandwich_acc)

\* "AutoSwapOut" arm that keeps the pending pair when Pattern::new gives no Pattern
ProcessSwapOutRetries(tx) ==
    /\ tx.instruction_type = "AutoSwapOut"
    /\ IF tx.sandwich_acc \in DOMAIN in_progress
       THEN LET pair    == in_progress[tx.sandwich_acc]
                pattern == PatternNew(pair[1], pair[2], tx)
            IN  IF pattern # NoPattern
                THEN /\ in_progress' = MapRemove(in_progress, tx.sandwich_acc)
                     /\ completed' = Append(completed, pattern)
                ELSE UNCHANGED <<in_progress, completed>>
       ELSE UNCHANGED <<in_progress, completed>>
    /\ hist' = Append(hist, tx)
    /\ UNCHANGED open_positions

\* process_transaction, "AutoSwapOut" arm
ProcessSwapOut(tx) ==
    /\ tx.instruction_type = "AutoSwapOut"
    /\ IF tx.sandwich_acc \in DOMAIN in_progress
       THEN /\ in_progress' = MapRemove(in_progress, tx.sandwich_acc)
            /\ LET pair    == in_progress[tx.sandwich_acc]
                   pattern == PatternNew(pair[1], pair[2], tx)
               IN  completed' = IF pattern # NoPattern THEN Append(completed, pattern)
                                ELSE completed
       ELSE UNCHANGED <<in_progress, completed>>
    /\ hist' = Append(hist, tx)
    /\ UNCHANGED open_positions

\* process_transaction, "_ => {}" arm: any other instruction kind is ignored
ProcessOther(tx) ==
    /\ tx.instruction_type \notin {"CreateSandwichV2", "AutoSwapIn", "AutoSwapOut"}
    /\ hist' = Append(hist, tx)
    /\ UNCHANGED <<open_positions, in_progress, completed>>

\* ------------------------------------------------- transactions fed to the tracker
\* a classified transaction with the fields the universes vary; the rest as
\* find_known_instruction fills them for a swap it could infer
MkTx(kind, key, signer, height, time, fmint, tmint, famount) ==
    [ NewClassifiedTransaction EXCEPT
        !.signature        = "sig",
        !.instruction_type = kind,
        !.sandwich_acc     = key,
        !.signer           = signer,
        !.block_height     = height,
        !.block_time       = time,
        !.swapper          = "victim",
        !.from_mint        = fmint,
        !.to_mint          = tmint,
        !.from_amount      = famount,
        !.to_amount        = famount ]

\* the three instruction kinds of get_instruction_map
KnownKinds == {"CreateSandwichV2", "AutoSwapIn", "AutoSwapOut"}

\* an instruction kind the tracker ignores (get_instruction_map lists it commented out)
OtherKind == "Cashout"

\* keys vary (the empty key included), everything else agrees
TxsKey ==
    { MkTx(k, key, "A", 1, Some(1), "M1", "M1", 100) : k \in KnownKinds, key \in {"", "K1", "K2"} }
      \cup { MkTx(OtherKind, "K1", "A", 1, Some(1), "M1", "M1", 100) }

\* keys and the signer of the Create vary
TxsSigner ==
    { MkTx("CreateSandwichV2", key, s, 1, Some(1), "", "", 0) : key \in {"K1", "K2"}, s \in {"A", "B"} }
      \cup { MkTx(k, key, "C", 1, Some(1), "M1", "M1", 100) : k \in {"AutoSwapIn", "AutoSwapOut"}, key \in {"K1", "K2"} }
      \cup { MkTx(OtherKind, "K1", "C", 1, Some(1), "M1", "M1", 100) }

\* keys and block heights vary
TxsHeight ==
    { MkTx(k, key, "A", h, Some(1), "M1", "M1", 100) : k \in KnownKinds, key \in {"K1", "K2"}, h \in {1, 2} }
      \cup { MkTx(OtherKind, "K1", "A", 1, Some(1), "M1", "M1", 100) }

\* block times vary, the absent block time included
TxsTime ==
    { MkTx(k, "K1", "A", 1, t, "M1", "M1", 100) : k \in KnownKinds, t \in {None, Some(1), Some(2)} }
      \cup { MkTx(OtherKind, "K1", "A", 1, Some(1), "M1", "M1", 100) }

\* <<from_mint, to_mint>> of a swap leg: inferred (equal), unset, or set on one side only
MintPairs == { <<"", "">>, <<"M1", "M1">>, <<"M2", "M2">>, <<"M1", "">>, <<"M1", "M2">> }

\* mints and amounts of the two swap legs vary; times are those of the spec's scenario A
TxsMint ==
    { MkTx("CreateSandwichV2", "K1", "A", 0, Some(10), "", "", 0) }
      \cup { MkTx("AutoSwapIn", "K1", "A", 0, Some(11), mp[1], mp[2], a) : mp \in MintPairs, a \in {100, 150} }
      \cup { MkTx("AutoSwapOut", "K1", "A", 0, Some(12), mp[1], mp[2], a) : mp \in MintPairs, a \in {100, 150} }
      \cup { MkTx(OtherKind, "K1", "A", 0, Some(10), "", "", 0) }

\* analyze_non_vote_transactions: "for classified_tx in classified_txs { process_transaction }"
\* over the transactions of Txs, at most max of them
Feed(Txs, max) ==
    \/ \E tx \in Txs : Len(hist) < max /\ ProcessCreate(tx) /\ UNCHANGED <<tipVars, swapVars, knownVars>>
    \/ \E tx \in Txs : Len(hist) < max /\ ProcessSwapIn(tx) /\ UNCHANGED <<tipVars, swapVars, knownVars>>
    \/ \E tx \in Txs : Len(hist) < max /\ ProcessSwapOut(tx) /\ UNCHANGED <<tipVars, swapVars, knownVars>>
    \/ \E tx \in Txs : Len(hist) < max /\ ProcessOther(tx) /\ UNCHANGED <<tipVars, swapVars, knownVars>>

NextKey == Feed(TxsKey, MaxSteps)

NextSigner == Feed(TxsSigner, MaxSteps)

NextHeight == Feed(TxsHeight, MaxSteps)

NextTime == Feed(TxsTime, MaxSteps)

NextMint == Feed(TxsMint, MaxMintSteps)

\* block times and the from_mint of the two swap legs vary: Pattern::new gives no
\* Pattern when the times are out of sequence or both from_mint are empty
TxsFail ==
    { MkTx("CreateSandwichV2", "K1", "A", 1, Some(1), "", "", 0) }
      \cup { MkTx(k, "K1", "A", 1, Some(t), m, m, 100) :
                 k \in {"AutoSwapIn", "AutoSwapOut"}, t \in {1, 2}, m \in {"", "M1"} }
      \cup { MkTx(OtherKind, "K1", "A", 1, Some(1), "", "", 0) }

NextFail == Feed(TxsFail, MaxFailSteps)

\* two keys, everything else agrees: every Create, AutoSwapIn, AutoSwapOut of one
\* key makes a Pattern
TxsClear ==
    { MkTx(k, key, "A", 1, Some(1), "M1", "M1", 100) : k \in KnownKinds, key \in {"K1", "K2"} }
      \cup { MkTx(OtherKind, "K1", "A", 1, Some(1), "M1", "M1", 100) }

\* clear_completed that resets the whole tracker
ClearCompletedResetsTracker ==
    /\ completed' = <<>>
    /\ open_positions' = <<>>
    /\ in_progress' = <<>>
    /\ UNCHANGED hist
    /\ UNCHANGED <<tipVars, swapVars, knownVars>>

\* PatternTracker::clear_completed
ClearCompleted ==
    /\ completed' = <<>>
    /\ UNCHANGED <<open_positions, in_progress, hist>>
    /\ UNCHANGED <<tipVars, swapVars, knownVars>>

\* PatternTracker::get_completed_patterns
get_completed_patterns == completed

\* a caller that feeds transactions and clears the completed list at any point
NextClear == Feed(TxsClear, MaxClearSteps) \/ ClearCompleted

\* ------------------------------------------------------------ detect_jito_tip
MIN_JITO_TIP == 1000

JITO_TIP_ADDRESSES ==
    { "96gYZGLnJYVFmbjzopPSU6QiEV5fGqZNyN9nmNhvrZU5",
      "HFqU5x63VTqvQss8hp11i4wVV8bD44PvwucfZ2bU7gRe",
      "Cw8CFyM9FkoMi7K7Crf6HNQqf4uEMzpKw6QNghXLvLkY",
      "ADaUMid9yfUytqMBgopwjb2DTLSokTSzL1zt6iGPaS49",
      "DfXygSm4jCyNCybVYYK6DwvWqjKee8pbDmJGcLWNDXjh",
      "ADuUkR4vqLUMWXxW9gh6D6L8pMSawimctcNZ5pGwDcEt",
      "DttWaMuVvTiduZRnguLF7jNxTgiMBZ1hyAumKUiL2KRL",
      "3AVi9Tg9Uo68tJfuvoKvqKNWKkC5wPdSSdeBnizKZ6jT" }

TARGET_PROGRAM == "vpeNALD89BZ4KxNUFjdLmFXBCwtyqBDQ85ouNoax38b"

WSOL_MINT == "So11111111111111111111111111111111111111112"

\* is_jito_tip_address
is_jito_tip_address(addr) == addr \in JITO_TIP_ADDRESSES

\* u64::saturating_sub
saturating_sub(a, b) == IF a >= b THEN a - b ELSE 0

\* the test of detect_jito_tip with a strict comparison against MIN_JITO_TIP
TipCountsStrict(diff, key) == diff > MIN_JITO_TIP /\ is_jito_tip_address(key)

\* detect_jito_tip: "diff >= MIN_JITO_TIP && is_jito_tip_address(&key.to_string())"
TipCounts(diff, key) == diff >= MIN_JITO_TIP /\ is_jito_tip_address(key)

\* the account keys of the transactions handed to detect_jito_tip: the first and the
\* last tip address, and an address that is no tip address
TipKeyUniverse ==
    { "96gYZGLnJYVFmbjzopPSU6QiEV5fGqZNyN9nmNhvrZU5",
      "3AVi9Tg9Uo68tJfuvoKvqKNWKkC5wPdSSdeBnizKZ6jT",
      TARGET_PROGRAM }

\* lamport balances before and after (their sums stay far below 2^64, as the
\* lamport supply does, so "total_tip += diff" does not overflow)
PreBalanceUniverse == {0, 1000}

PostBalanceUniverse == {0, 500, 999, 1000, 2000}

\* nothing was handed to detect_jito_tip
TipIdle ==
    /\ account_keys = <<>>
    /\ pre_balances = <<>>
    /\ post_balances = <<>>
    /\ tip_i = 1
    /\ total_tip = 0
    /\ tip_pc = "idle"

\* find_known_instruction calls detect_jito_tip(&account_keys, &meta.pre_balances,
\* &meta.post_balances): one balance per account key, "let mut total_tip = 0"
TipInit ==
    /\ \E n \in 0..MaxTipAccounts :
          /\ account_keys \in [1..n -> TipKeyUniverse]
          /\ pre_balances \in [1..n -> PreBalanceUniverse]
          /\ post_balances \in [1..n -> PostBalanceUniverse]
    /\ tip_i = 1
    /\ total_tip = 0
    /\ tip_pc = "loop"

\* detect_jito_tip: one iteration of "for (i, key) in account_keys.iter().enumerate()"
DetectTipStep ==
    /\ tip_pc = "loop"
    /\ tip_i <= Len(account_keys)
    /\ LET diff == saturating_sub(post_balances[tip_i], pre_balances[tip_i])
       IN  total_tip' = IF TipCounts(diff, account_keys[tip_i])
                        THEN total_tip + diff
                        ELSE total_tip
    /\ tip_i' = tip_i + 1
    /\ UNCHANGED <<account_keys, pre_balances, post_balances, tip_pc>>
    /\ UNCHANGED <<trackerVars, swapVars, knownVars>>

\* detect_jito_tip: the loop is over, total_tip is returned
DetectTipReturn ==
    /\ tip_pc = "loop"
    /\ tip_i > Len(account_keys)
    /\ tip_pc' = "done"
    /\ UNCHANGED <<account_keys, pre_balances, post_balances, tip_i, total_tip>>
    /\ UNCHANGED <<trackerVars, swapVars, knownVars>>

NextTip == DetectTipStep \/ DetectTipReturn

\* -------------------------------------------------------- find_token_accounts
\* the "holding account" find_token_accounts filters out
HOLDING_ACCOUNT == "DKLvbSugkGMf4PBMakfHW9BdvcYj7Y7FRbsiL6v5DRy2"

\* 10f64.powi(9): token amounts are divided by 1e9 before they are compared and
\* multiplied by it again. The model's balances count units of 10^9 raw units, the
\* amounts for which both conversions are exact in f64
Giga == 1000000000

\* SwapInfo::new() is never returned; find_token_accounts's "None"
NoSwap == [none |-> TRUE]

\* no run of find_token_accounts was made
SwapIdle ==
    /\ swap_input = [ n_keys |-> 0, ix_accounts |-> <<>>, pre_token_balances |-> <<>>,
                      post_token_balances |-> <<>>, instruction_type |-> "" ]
    /\ swap_runs = <<>>

\* a UiTransactionTokenBalance: account_index, mint, owner and ui_token_amount.amount
TokenBalance(idx, mint, owner, amount) ==
    [ account_index |-> idx, mint |-> mint, owner |-> owner, amount |-> amount ]

\* the mints of the token accounts: two tokens and wrapped SOL
MintUniverse == {"MintA", "MintB", WSOL_MINT}

\* the owners of the token accounts
OwnerUniverse == {Some("Owner1"), Some(HOLDING_ACCOUNT)}

\* the balance of an account before the instruction
PreAmountUniverse == {2}

\* the balance of an account after it; -1: the account has no post-balance entry
PostAmountUniverse == {-1, 0, 1, 2, 3}

\* the arguments of a call of find_token_accounts from find_known_instruction: an
\* instruction referring to the accounts 0..n-1, each with a pre-balance entry
SwapInit ==
    /\ \E n \in 1..MaxTokenAccounts :
       \E mints \in [1..n -> MintUniverse] :
       \E owners \in [1..n -> OwnerUniverse] :
       \E pres \in [1..n -> PreAmountUniverse] :
       \E posts \in [1..n -> PostAmountUniverse] :
       \E kind \in {"AutoSwapIn", "AutoSwapOut"} :
          swap_input =
              [ n_keys              |-> n,
                ix_accounts         |-> [i \in 1..n |-> i - 1],
                pre_token_balances  |-> [i \in 1..n |->
                                            TokenBalance(i - 1, mints[i], owners[i], pres[i])],
                post_token_balances |-> LET present == { i \in 1..n : posts[i] >= 0 }
                                            ord(k) == CHOOSE i \in present :
                                                Cardinality({ j \in present : j < i }) = k - 1
                                        IN  [k \in 1..Cardinality(present) |->
                                                TokenBalance(ord(k) - 1, mints[ord(k)],
                                                             owners[ord(k)], posts[ord(k)])],
                instruction_type    |-> kind ]
    /\ swap_runs = <<>>

\* relevant_accounts: the instruction's account indices that are below account_keys.len()
relevant_accounts(inp) ==
    { inp.ix_accounts[k] : k \in { k \in 1..Len(inp.ix_accounts) :
                                      inp.ix_accounts[k] < inp.n_keys } }

\* pre_map / post_map: the balances of the relevant accounts by account index
\* (collect() into a HashMap keeps the last entry of an index)
BalanceMap(balances, relevant) ==
    LET idxs == { balances[k].account_index : k \in 1..Len(balances) } \cap relevant
        last(idx) == CHOOSE k \in 1..Len(balances) :
                        /\ balances[k].account_index = idx
                        /\ \A m \in 1..Len(balances) :
                              balances[m].account_index = idx => m <= k
    IN  [idx \in idxs |-> balances[last(idx)]]

pre_map(inp) == BalanceMap(inp.pre_token_balances, relevant_accounts(inp))

post_map(inp) == BalanceMap(inp.post_token_balances, relevant_accounts(inp))

\* |x|
Abs(x) == IF x < 0 THEN -x ELSE x

\* the orders in which HashMap::iter() may visit the keys S: std's HashMap hashes
\* with a RandomState seeded anew for each map, so every order is possible
IterationOrders(S) ==
    { o \in [1..Cardinality(S) -> S] : \A a, b \in 1..Cardinality(S) : o[a] = o[b] => a = b }

\* the first loop over pre_map.iter(), from position k of the order on: the state
\* <<primary_mint, max_abs_change, other_mint_changes>> after it
RECURSIVE PrimaryLoop(_, _, _, _)
PrimaryLoop(inp, order, k, st) ==
    IF k > Len(order) THEN st
    ELSE LET idx    == order[k]
             pre    == pre_map(inp)[idx]
             change == post_map(inp)[idx].amount - pre.amount
             counts == idx \in DOMAIN post_map(inp) /\ Abs(change) > 0 /\ pre.mint # WSOL_MINT
             bigger == counts /\ Abs(change) > st.max_abs_change
             old    == IF pre.mint \in DOMAIN st.other_mint_changes
                       THEN st.other_mint_changes[pre.mint] ELSE <<>>
         IN  PrimaryLoop(inp, order, k + 1,
                 IF ~counts THEN st
                 ELSE [ primary_mint       |-> IF bigger THEN pre.mint ELSE st.primary_mint,
                        max_abs_change     |-> IF bigger THEN Abs(change) ELSE st.max_abs_change,
                        other_mint_changes |-> MapInsert(st.other_mint_changes, pre.mint,
                                                         Append(old, <<change, idx>>)) ])

\* the owners of the accounts that changed the primary mint
primary_accounts(inp, st) ==
    IF st.primary_mint \notin DOMAIN st.other_mint_changes THEN {}
    ELSE LET changes == st.other_mint_changes[st.primary_mint]
         IN  { pre_map(inp)[changes[k][2]].owner[1] :
                  k \in { k \in 1..Len(changes) : pre_map(inp)[changes[k][2]].owner # None } }

\* the second loop over pre_map.iter(): the wSOL change of the first wSOL account,
\* in the order, that an owner of a primary account owns ("break")
WsolChange(inp, order, st) ==
    IF st.primary_mint = "" THEN None
    ELSE LET hits == { k \in 1..Len(order) :
                          /\ order[k] \in DOMAIN post_map(inp)
                          /\ pre_map(inp)[order[k]].mint = WSOL_MINT
                          /\ pre_map(inp)[order[k]].owner # None
                          /\ pre_map(inp)[order[k]].owner[1] \in primary_accounts(inp, st) }
         IN  IF hits = {} THEN None
             ELSE LET k    == CHOOSE k \in hits : \A m \in hits : k <= m
                      pre  == pre_map(inp)[order[k]].amount
                      post == post_map(inp)[order[k]].amount
                  IN  CASE inp.instruction_type = "AutoSwapIn"  -> Some(post - pre)
                        [] inp.instruction_type = "AutoSwapOut" -> Some(pre - post)
                        [] OTHER -> None

\* partition(): the changes below zero (negative) or the others, in order
RECURSIVE SelectChanges(_, _)
SelectChanges(changes, negative) ==
    IF changes = <<>> THEN <<>>
    ELSE IF (Head(changes)[1] < 0) = negative
         THEN <<Head(changes)>> \o SelectChanges(Tail(changes), negative)
         ELSE SelectChanges(Tail(changes), negative)

\* find_token_accounts, with pre_map.iter() visiting the account indices in this order
find_token_accounts(inp, order) ==
    LET st == PrimaryLoop(inp, order, 1,
                  [ primary_mint |-> "", max_abs_change |-> 0, other_mint_changes |-> <<>> ])
        wsol_change == WsolChange(inp, order, st)
    IN  IF st.primary_mint \notin DOMAIN st.other_mint_changes THEN NoSwap
        ELSE LET token_changes == st.other_mint_changes[st.primary_mint]
                 decrease == SelectChanges(token_changes, TRUE)
                 increase == SelectChanges(token_changes, FALSE)
             IN  IF decrease = <<>> \/ increase = <<>> THEN NoSwap
                 ELSE LET dec_change == decrease[1][1]
                          dec_idx    == decrease[1][2]
                          inc_change == increase[1][1]
                          owner      == pre_map(inp)[dec_idx].owner
                          swapper    == IF owner # None THEN owner[1] ELSE ""
                      IN  IF swapper = HOLDING_ACCOUNT THEN NoSwap
                          ELSE [ swapper     |-> swapper,
                                 from_mint   |-> st.primary_mint,
                                 to_mint     |-> st.primary_mint,
                                 from_amount |-> Abs(dec_change) * Giga,
                                 to_amount   |-> inc_change * Giga,
                                 wsol_change |-> wsol_change,
                                 decimals    |-> 9 ]

\* one run of find_token_accounts on the input; two runs are kept
RunFindTokenAccounts ==
    /\ swap_input.n_keys > 0
    /\ Len(swap_runs) < 2
    /\ \E order \in IterationOrders(DOMAIN pre_map(swap_input)) :
          swap_runs' = Append(swap_runs, find_token_accounts(swap_input, order))
    /\ UNCHANGED swap_input
    /\ UNCHANGED <<trackerVars, tipVars, knownVars>>

NextSwap == RunFindTokenAccounts

\* ----------------------------------------------------- find_known_instruction
\* get_instruction_map: hex discriminator -> instruction name
get_instruction_map ==
    [ h \in {"b3ecc1a00df8fe9a", "5bb527f9eccb5e90", "b024faebda2bde25"} |->
        CASE h = "b3ecc1a00df8fe9a" -> "CreateSandwichV2"
          [] h = "5bb527f9eccb5e90" -> "AutoSwapIn"
          [] h = "b024faebda2bde25" -> "AutoSwapOut" ]

\* the digits of hex::encode
HexDigits == <<"0", "1", "2", "3", "4", "5", "6", "7", "8", "9", "a", "b", "c", "d", "e", "f">>

\* hex::encode: two lower-case hex digits per byte
RECURSIVE encode(_)
encode(bytes) ==
    IF bytes = <<>> THEN ""
    ELSE HexDigits[(Head(bytes) \div 16) + 1] \o HexDigits[(Head(bytes) % 16) + 1]
            \o encode(Tail(bytes))

\* the account key of the fee payer in the transactions of the universe
PayerKey == "4k3Dyjzvzp8eMZWUXbBCjEvwSkkk59S5iCNLY3QrkX6R"

\* the account keys of the transactions handed to find_known_instruction
KnownKeyUniverse == {PayerKey, TARGET_PROGRAM}

\* Pubkey::from_str: Ok for the base58 text of a 32-byte key, which every
\* key.to_string() is, and Err for the empty string
PubkeyFromStr(str) == IF str \in KnownKeyUniverse THEN Some(str) ELSE None

\* iter().position(): the 0-based index of the first element equal to x
Position(seq, x) ==
    IF \E i \in 1..Len(seq) : seq[i] = x
    THEN Some((CHOOSE i \in 1..Len(seq) :
                  seq[i] = x /\ \A j \in 1..Len(seq) : seq[j] = x => i <= j) - 1)
    ELSE None

\* Option<usize>::unwrap_or_default: 0 for None
unwrap_or_default(opt) == IF opt = None THEN 0 ELSE opt[1]

\* instruction data: the three known discriminators (one followed by an argument
\* byte), the discriminator of Cashout, which the map does not list, and 7 bytes
CreateData == <<179, 236, 193, 160, 13, 248, 254, 154>>

SwapInData == <<91, 181, 39, 249, 236, 203, 94, 144, 1>>

SwapOutData == <<176, 36, 250, 235, 218, 43, 222, 37>>

CashoutData == <<20, 216, 18, 249, 215, 11, 214, 83>>

ShortData == <<179, 236, 193, 160, 13, 248, 254>>

DataUniverse == {CreateData, SwapInData, SwapOutData, CashoutData, ShortData}

\* the account indices of an instruction: none, three, three with the third beyond
\* the account keys, and eight with the seventh beyond the account keys
IxAccountsUniverse ==
    { <<>>, <<0, 1, 1>>, <<0, 1, 2>>, <<0, 1, 0, 0, 0, 0, 2, 1>> }

\* a CompiledInstruction
InstructionUniverse ==
    [ program_id_index : {0, 1}, data : DataUniverse, accounts : IxAccountsUniverse ]

\* the status meta of a transaction with n account keys: the payer pays 600
\* lamports, token account 0 gives one unit of MintA and token account 1 gets it
MetaOf(n) ==
    [ pre_balances        |-> [i \in 1..n |-> 1000],
      post_balances       |-> [i \in 1..n |-> IF i = 1 THEN 400 ELSE 1000],
      pre_token_balances  |-> << TokenBalance(0, "MintA", Some("Owner1"), 2),
                                 TokenBalance(1, "MintA", Some("Owner1"), 2) >>,
      post_token_balances |-> << TokenBalance(0, "MintA", Some("Owner1"), 1),
                                 TokenBalance(1, "MintA", Some("Owner1"), 3) >> ]

\* find_known_instruction was not called
KnownIdle ==
    /\ known_tx = [ num_required_signatures |-> 0, signatures |-> <<>>,
                    account_keys |-> <<>>, instructions |-> <<>>, meta |-> None,
                    block_height |-> 0, block_time |-> None ]
    /\ found_txs = <<>>
    /\ processed_types = {}
    /\ ix_i = 1
    /\ known_pc = "idle"

\* a call of find_known_instruction on a transaction decode() gave: any header,
\* account keys and instructions a VersionedTransaction can hold (decode() is
\* library code; what it rejects is not visible here), one signature per required
\* signer, with or without meta; "found_txs = Vec::new()", "processed_types = HashSet::new()"
KnownInit ==
    /\ \E num \in 0..2 :
       \E nk \in 0..MaxKeys :
       \E keys \in [1..nk -> KnownKeyUniverse] :
       \E ni \in 0..MaxInstructions :
       \E ixs \in [1..ni -> InstructionUniverse] :
       \E meta \in {None, Some(MetaOf(nk))} :
          known_tx = [ num_required_signatures |-> num,
                       signatures              |-> [i \in 1..num |-> "sig"],
                       account_keys            |-> keys,
                       instructions            |-> ixs,
                       meta                    |-> meta,
                       block_height            |-> 1,
                       block_time              |-> Some(1) ]
    /\ found_txs = <<>>
    /\ processed_types = {}
    /\ ix_i = 1
    /\ known_pc = "start"

\* "let signature": the first signature, or the empty string
SignatureOf(tx) == IF tx.signatures # <<>> THEN tx.signatures[1] ELSE ""

\* "let signer": the first account key when the header requires a signer and the
\* account keys are at least as many as the required signers, else the empty string
SignerOf(tx) ==
    IF tx.num_required_signatures > 0 /\ Len(tx.account_keys) >= tx.num_required_signatures
    THEN tx.account_keys[1]
    ELSE ""

\* "let signer_index": the position of signer_pubkey in the account keys; None
\* stands for unwrap_or(usize::MAX), which is below no length
SignerIndex(tx) ==
    LET signer_pubkey == PubkeyFromStr(SignerOf(tx))
    IN  IF signer_pubkey = None THEN None ELSE Position(tx.account_keys, signer_pubkey[1])

\* "let target_program_idx"
TargetProgramIdx(tx) == Position(tx.account_keys, TARGET_PROGRAM)

\* detect_jito_tip as a function of its arguments, from index i on
RECURSIVE TipFrom(_, _, _, _)
TipFrom(keys, pre, post, i) ==
    IF i > Len(keys) THEN 0
    ELSE LET diff == saturating_sub(post[i], pre[i])
         IN  (IF TipCounts(diff, keys[i]) THEN diff ELSE 0) + TipFrom(keys, pre, post, i + 1)

\* "let jito_tip_amount"
JitoTipAmount(tx) ==
    IF tx.meta = None THEN 0
    ELSE TipFrom(tx.account_keys, tx.meta[1].pre_balances, tx.meta[1].post_balances, 1)

\* "let lamport_change": post - pre of the signer's account when signer_index is
\* inside both balance lists, else 0
LamportChange(tx) ==
    LET idx == SignerIndex(tx)
        pre == IF tx.meta = None THEN <<>> ELSE tx.meta[1].pre_balances
        post == IF tx.meta = None THEN <<>> ELSE tx.meta[1].post_balances
    IN  IF idx # None /\ idx[1] < Len(pre) /\ idx[1] < Len(post)
        THEN post[idx[1] + 1] - pre[idx[1] + 1]
        ELSE 0

\* the arguments find_known_instruction hands to find_token_accounts
SwapInputOf(tx, ix, name) ==
    [ n_keys              |-> Len(tx.account_keys),
      ix_accounts         |-> ix.accounts,
      pre_token_balances  |-> IF tx.meta = None THEN <<>> ELSE tx.meta[1].pre_token_balances,
      post_token_balances |-> IF tx.meta = None THEN <<>> ELSE tx.meta[1].post_token_balances,
      instruction_type    |-> name ]

\* "account_keys[ix.accounts[2] as usize]" of the CreateSandwichV2 arm is out of bounds
CreateIndexPanics(tx, ix, name) ==
    /\ name = "CreateSandwichV2"
    /\ Len(ix.accounts) > 2
    /\ ix.accounts[3] >= Len(tx.account_keys)

\* "let mut sandwich_acc": account 2 of a CreateSandwichV2; for the swaps the first
\* of the accounts 6 and 7 that exists and is an index into the account keys
SandwichAcc(tx, ix, name) ==
    LET valid(idx) == idx < Len(ix.accounts) /\ ix.accounts[idx + 1] < Len(tx.account_keys)
    IN  CASE name = "CreateSandwichV2" ->
                IF Len(ix.accounts) > 2 THEN tx.account_keys[ix.accounts[3] + 1] ELSE ""
          [] name \in {"AutoSwapIn", "AutoSwapOut"} ->
                IF valid(6) THEN tx.account_keys[ix.accounts[7] + 1]
                ELSE IF valid(7) THEN tx.account_keys[ix.accounts[8] + 1]
                ELSE ""
          [] OTHER -> ""

\* "let classified_tx": the fields of the swap when find_token_accounts gave one,
\* else their defaults
Classified(tx, ix, name, swap_info) ==
    [ signature        |-> SignatureOf(tx),
      signer           |-> SignerOf(tx),
      block_height     |-> tx.block_height,
      block_time       |-> tx.block_time,
      instruction_type |-> name,
      sandwich_acc     |-> SandwichAcc(tx, ix, name),
      swapper          |-> IF swap_info # NoSwap THEN swap_info.swapper ELSE "",
      from_mint        |-> IF swap_info # NoSwap THEN swap_info.from_mint ELSE "",
      to_mint          |-> IF swap_info # NoSwap THEN swap_info.to_mint ELSE "",
      from_amount      |-> IF swap_info # NoSwap THEN swap_info.from_amount ELSE 0,
      to_amount        |-> IF swap_info # NoSwap THEN swap_info.to_amount ELSE 0,
      jito_tip_amount  |-> JitoTipAmount(tx),
      wsol_change      |-> IF swap_info # NoSwap THEN swap_info.wsol_change ELSE None,
      lamport_change   |-> LamportChange(tx),
      decimals         |-> IF swap_info # NoSwap THEN swap_info.decimals ELSE 9 ]

\* find_known_instruction up to the loop: "Err(_) => return vec![]" when
\* Pubkey::from_str(&signer) fails
FindKnownStart ==
    /\ known_pc = "start"
    /\ known_pc' = IF PubkeyFromStr(SignerOf(known_tx)) = None THEN "done" ELSE "loop"
    /\ UNCHANGED <<known_tx, found_txs, processed_types, ix_i>>
    /\ UNCHANGED <<trackerVars, tipVars, swapVars>>

\* the instruction is not one to classify: another program, data below 8 bytes, a
\* discriminator already processed, or one the map does not list
IxSkipped(tx, ix) ==
    \/ ix.program_id_index # unwrap_or_default(TargetProgramIdx(tx))
    \/ Len(ix.data) < 8
    \/ encode(SubSeq(ix.data, 1, 8)) \in processed_types
    \/ encode(SubSeq(ix.data, 1, 8)) \notin DOMAIN get_instruction_map

\* one iteration of "for ix in &instructions"
FindKnownIx ==
    /\ known_pc = "loop"
    /\ ix_i <= Len(known_tx.instructions)
    /\ LET ix == known_tx.instructions[ix_i]
           hex_data == encode(SubSeq(ix.data, 1, 8))
       IN  IF IxSkipped(known_tx, ix)
           THEN /\ ix_i' = ix_i + 1
                /\ UNCHANGED <<found_txs, processed_types, known_pc>>
           ELSE LET name == get_instruction_map[hex_data]
                    inp == SwapInputOf(known_tx, ix, name)
                IN  /\ processed_types' = processed_types \cup {hex_data}
                    /\ IF CreateIndexPanics(known_tx, ix, name)
                       THEN /\ known_pc' = "panic"
                            /\ UNCHANGED <<found_txs, ix_i>>
                       ELSE /\ \E order \in IterationOrders(DOMAIN pre_map(inp)) :
                                  found_txs' = Append(found_txs,
                                      Classified(known_tx, ix, name,
                                                 find_token_accounts(inp, order)))
                            /\ ix_i' = ix_i + 1
                            /\ UNCHANGED known_pc
    /\ UNCHANGED known_tx
    /\ UNCHANGED <<trackerVars, tipVars, swapVars>>

\* the loop is over: found_txs is returned
FindKnownReturn ==
    /\ known_pc = "loop"
    /\ ix_i > Len(known_tx.instructions)
    /\ known_pc' = "done"
    /\ UNCHANGED <<known_tx, found_txs, processed_types, ix_i>>
    /\ UNCHANGED <<trackerVars, tipVars, swapVars>>

NextKnown == FindKnownStart \/ FindKnownIx \/ FindKnownReturn

\* ------------------------------------------------------------ specifications
Init == TrackerInit /\ TipIdle /\ SwapIdle /\ KnownIdle

Spec == Init /\ [][NextKey]_vars

SpecSigner == Init /\ [][NextSigner]_vars

SpecHeight == Init /\ [][NextHeight]_vars

SpecTime == Init /\ [][NextTime]_vars

SpecMint == Init /\ [][NextMint]_vars

SpecClear == Init /\ [][NextClear]_vars

SpecFail == Init /\ [][NextFail]_vars

InitTip == TrackerInit /\ TipInit /\ SwapIdle /\ KnownIdle

SpecTip == InitTip /\ [][NextTip]_vars

InitSwap == TrackerInit /\ TipIdle /\ SwapInit /\ KnownIdle

SpecSwap == InitSwap /\ [][NextSwap]_vars

InitKnown == TrackerInit /\ TipIdle /\ SwapIdle /\ KnownInit

SpecKnown == InitKnown /\ [][NextKnown]_vars

\* ======================================================== properties
\* the patterns of the completed list, as a set
CompletedSet == { completed[n] : n \in 1..Len(completed) }

\* the legs of a pattern
CreateLeg(p) == p.transactions[1]

SwapInLeg(p) == p.transactions[2]

SwapOutLeg(p) == p.transactions[3]

\* hist[i] has instruction kind k and correlation key key
IsAt(i, k, key) ==
    /\ i \in 1..Len(hist)
    /\ hist[i].instruction_type = k
    /\ hist[i].sandwich_acc = key

\* the transaction of the last step, when the step fed one
FedNow == hist'[Len(hist')]

\* Option<u64> "less than or equal", stated directly: None is below every Some
OptionLe(a, b) == a = None \/ (b # None /\ a[1] <= b[1])

\* ---- C1
\* every completed Pattern is made of a CreateSandwichV2, a later AutoSwapIn and a
\* later AutoSwapOut of the history, all three with one correlation key
EveryPatternPreceded ==
    \A p \in CompletedSet :
        \E i, j, k \in 1..Len(hist) :
            /\ i < j /\ j < k
            /\ hist[i] = CreateLeg(p) /\ hist[j] = SwapInLeg(p) /\ hist[k] = SwapOutLeg(p)
            /\ IsAt(i, "CreateSandwichV2", hist[k].sandwich_acc)
            /\ IsAt(j, "AutoSwapIn", hist[k].sandwich_acc)
            /\ IsAt(k, "AutoSwapOut", hist[k].sandwich_acc)

\* the step feeds an AutoSwapOut whose key has no entry in in_progress
DanglingSwapOutStep ==
    /\ Len(hist') = Len(hist) + 1
    /\ FedNow.instruction_type = "AutoSwapOut"
    /\ FedNow.sandwich_acc \notin DOMAIN in_progress

\* C1: an AutoSwapOut whose key has no entry in in_progress when it is processed
\* leaves the completed list as it was, and every completed Pattern was preceded,
\* in order, by a CreateSandwichV2 and an AutoSwapIn with its key
C1_NoDanglingCompletion ==
    /\ [][DanglingSwapOutStep => completed' = completed]_vars
    /\ []EveryPatternPreceded

\* C1 witness: an AutoSwapOut was processed for a key that had a Create but no
\* AutoSwapIn before it, and nothing was completed
C1_Witness ==
    \E k \in 1..Len(hist) :
        /\ hist[k].instruction_type = "AutoSwapOut"
        /\ \E i \in 1..(k - 1) : IsAt(i, "CreateSandwichV2", hist[k].sandwich_acc)
        /\ \A j \in 1..(k - 1) : ~IsAt(j, "AutoSwapIn", hist[k].sandwich_acc)
        /\ completed = <<>>

\* ---- C2
\* the three legs of p carry one correlation key
SameKey(p) ==
    /\ CreateLeg(p).sandwich_acc = SwapInLeg(p).sandwich_acc
    /\ SwapInLeg(p).sandwich_acc = SwapOutLeg(p).sandwich_acc

\* the three legs of p carry one block height
SameHeight(p) ==
    /\ CreateLeg(p).block_height = SwapInLeg(p).block_height
    /\ SwapInLeg(p).block_height = SwapOutLeg(p).block_height

\* C2 as stated: every completed Pattern has one correlation key and one block
\* height across its three legs
C2_KeyAndHeightConsistent == \A p \in CompletedSet : SameKey(p) /\ SameHeight(p)

\* C2 amended: every completed Pattern has one correlation key across its legs;
\* the block heights agree on the completed Patterns for which is_valid() is true
C2_KeyConsistentHeightWhenValid ==
    \A p \in CompletedSet : SameKey(p) /\ (is_valid(p) => SameHeight(p))

\* C2 witness: a valid Pattern was completed next to transactions of another height
C2_Witness ==
    /\ \E p \in CompletedSet : is_valid(p)
    /\ \E i, j \in 1..Len(hist) : hist[i].block_height # hist[j].block_height

\* ---- C3
\* the block times of a triple are out of sequence
OutOfSequence(c, si, so) ==
    ~(OptionLe(c.block_time, si.block_time) /\ OptionLe(si.block_time, so.block_time))

\* C3: Pattern::new gives no Pattern for a pending pair and a swap-out whose block
\* times are out of sequence, and every completed Pattern has
\* create.block_time <= swap_in.block_time <= swap_out.block_time (absent below present)
C3_TimeOrdered ==
    /\ \A p \in CompletedSet :
          /\ OptionLe(CreateLeg(p).block_time, SwapInLeg(p).block_time)
          /\ OptionLe(SwapInLeg(p).block_time, SwapOutLeg(p).block_time)
    /\ \A key \in DOMAIN in_progress : \A so \in TxsTime :
          OutOfSequence(in_progress[key][1], in_progress[key][2], so)
              => PatternNew(in_progress[key][1], in_progress[key][2], so) = NoPattern

\* C3 witness: a Create, an AutoSwapIn and an AutoSwapOut with an absent block time
\* after a present one were fed in order and nothing was completed
C3_Witness ==
    /\ Len(hist) = 3
    /\ IsAt(1, "CreateSandwichV2", "K1") /\ IsAt(2, "AutoSwapIn", "K1")
    /\ IsAt(3, "AutoSwapOut", "K1")
    /\ hist[1].block_time = Some(1) /\ hist[2].block_time = Some(2)
    /\ hist[3].block_time = None
    /\ completed = <<>> /\ in_progress = <<>>

\* ---- C4
\* each swap leg of p trades one mint
MintConsistent(p) ==
    /\ SwapInLeg(p).from_mint = SwapInLeg(p).to_mint
    /\ SwapOutLeg(p).from_mint = SwapOutLeg(p).to_mint

\* C4 as stated: every completed Pattern has from_mint = to_mint on both swap legs
C4_MintConsistent == \A p \in CompletedSet : MintConsistent(p)

\* C4 amended: the completed Patterns for which is_valid() is true have
\* from_mint = to_mint on both swap legs
C4_MintConsistentWhenValid == \A p \in CompletedSet : is_valid(p) => MintConsistent(p)

\* C4 witness: a valid Pattern was completed from legs with from_mint = to_mint
C4_Witness == \E p \in CompletedSet : is_valid(p) /\ SwapInLeg(p).from_mint = "M1"

\* ---- C5
\* the position in hist of the last CreateSandwichV2 with this key (0: none)
LastCreate(key) ==
    LET S == { i \in 1..Len(hist) : IsAt(i, "CreateSandwichV2", key) }
    IN  IF S = {} THEN 0 ELSE CHOOSE i \in S : \A j \in S : j <= i

\* hist is Create, Create, AutoSwapIn, AutoSwapOut, all with the key K1
TwoCreatesScenario ==
    /\ Len(hist) = 4
    /\ IsAt(1, "CreateSandwichV2", "K1") /\ IsAt(2, "CreateSandwichV2", "K1")
    /\ IsAt(3, "AutoSwapIn", "K1") /\ IsAt(4, "AutoSwapOut", "K1")

\* C5: the open map holds, for a key, the last Create fed for it; the create leg of
\* a completed Pattern is the last Create fed for the key before its AutoSwapIn; and
\* after Create, Create, AutoSwapIn, AutoSwapOut for one key there is at most one
\* Pattern, made of the second Create (its attacker is the second Create's signer)
C5_SecondCreateSupersedes ==
    /\ \A key \in DOMAIN open_positions :
          LastCreate(key) > 0 /\ open_positions[key] = hist[LastCreate(key)]
    /\ \A p \in CompletedSet :
          \E i, j, k \in 1..Len(hist) :
              /\ i < j /\ j < k
              /\ hist[i] = CreateLeg(p) /\ hist[j] = SwapInLeg(p) /\ hist[k] = SwapOutLeg(p)
              /\ IsAt(i, "CreateSandwichV2", hist[k].sandwich_acc)
              /\ \A m \in (i + 1)..(j - 1) : ~IsAt(m, "CreateSandwichV2", hist[k].sandwich_acc)
    /\ TwoCreatesScenario =>
          /\ Len(completed) <= 1
          /\ \A p \in CompletedSet :
                CreateLeg(p) = hist[2] /\ p.attacker = hist[2].signer

\* C5 witness: two Creates with different signers, then the swaps, completed one
\* Pattern whose attacker is the second signer
C5_Witness ==
    /\ TwoCreatesScenario
    /\ hist[1].signer = "A" /\ hist[2].signer = "B"
    /\ Len(completed) = 1 /\ completed[1].attacker = "B"

\* ---- C6
\* hist is Create(K1), AutoSwapOut(K1) on a fresh tracker
CreateThenSwapOut ==
    /\ Len(hist) = 2
    /\ IsAt(1, "CreateSandwichV2", "K1") /\ IsAt(2, "AutoSwapOut", "K1")

\* C6 as stated: after Create(K), AutoSwapOut(K) nothing is completed and neither
\* the open map nor the pending map contains K
C6_CreateSwapOutLeavesNothing ==
    CreateThenSwapOut =>
        /\ completed = <<>>
        /\ "K1" \notin DOMAIN open_positions
        /\ "K1" \notin DOMAIN in_progress

\* C6 amended: after Create(K), AutoSwapOut(K) nothing is completed, the pending map
\* does not contain K, and the open map still holds the Create under K
C6_CreateSwapOutKeepsOpen ==
    CreateThenSwapOut =>
        /\ completed = <<>>
        /\ "K1" \notin DOMAIN in_progress
        /\ "K1" \in DOMAIN open_positions
        /\ open_positions["K1"] = hist[1]

\* C6 witness: the scenario was run
C6_Witness == CreateThenSwapOut /\ completed = <<>>

\* ---- C7
\* C7: no Create is moved into in_progress under the empty correlation key, and no
\* completed Pattern has legs whose correlation key is empty
C7_EmptyKeyNeverPairs ==
    /\ "" \notin DOMAIN in_progress
    /\ \A p \in CompletedSet : CreateLeg(p).sandwich_acc # ""

\* ---- C8
\* hist is Create, AutoSwapIn, AutoSwapOut for K1 with from_mint set on both swap legs
\* to the mint M1 and to_mint set to tm
ScenarioA(tm) ==
    /\ Len(hist) = 3
    /\ IsAt(1, "CreateSandwichV2", "K1") /\ IsAt(2, "AutoSwapIn", "K1")
    /\ IsAt(3, "AutoSwapOut", "K1")
    /\ hist[2].from_mint = "M1" /\ hist[3].from_mint = "M1"
    /\ hist[2].to_mint = tm /\ hist[3].to_mint = tm

\* exactly one Pattern is completed and its token profit is b - a
OnePatternWithProfit ==
    /\ Len(completed) = 1
    /\ get_token_profit(completed[1]) = hist[3].from_amount - hist[2].from_amount

\* the token profit of a completed Pattern is 0 exactly when it is not valid or b = a
ProfitZeroIff ==
    \A p \in CompletedSet :
        get_token_profit(p) = 0
            <=> (~is_valid(p) \/ SwapOutLeg(p).from_amount = SwapInLeg(p).from_amount)

\* C8 as stated: the scenario sets from_mint only (to_mint keeps its default, the
\* empty string); one Pattern is completed and its token profit is b - a
C8_ScenarioAProfit == (ScenarioA("") => OnePatternWithProfit) /\ ProfitZeroIff

\* C8 amended: with to_mint set to M as well on both swap legs, one Pattern is
\* completed and its token profit is b - a; with to_mint left empty one Pattern is
\* completed and its profit is 0; the profit is 0 exactly when the Pattern is not
\* valid or b = a
C8_ScenarioAProfitWithToMint ==
    /\ ScenarioA("M1") => OnePatternWithProfit
    /\ ScenarioA("") => Len(completed) = 1 /\ get_token_profit(completed[1]) = 0
    /\ ProfitZeroIff

\* C8 witness: scenario A with amounts 100 and 150 completed a Pattern of profit 50
C8_Witness ==
    /\ ScenarioA("M1")
    /\ hist[2].from_amount = 100 /\ hist[3].from_amount = 150
    /\ Len(completed) = 1 /\ get_token_profit(completed[1]) = 50

\* ---- C9
\* d_i: the increase of the balance of account i, 0 for a decrease
Increase(i) ==
    IF post_balances[i] - pre_balances[i] > 0 THEN post_balances[i] - pre_balances[i] ELSE 0

\* the account indices whose increase is at least 1000 and whose key is a tip address
TipIndices ==
    { i \in 1..Len(account_keys) :
         Increase(i) >= 1000 /\ account_keys[i] \in JITO_TIP_ADDRESSES }

\* the sum of the increases over a set of indices
RECURSIVE SumIncrease(_)
SumIncrease(S) ==
    IF S = {} THEN 0
    ELSE LET i == CHOOSE i \in S : TRUE IN Increase(i) + SumIncrease(S \ {i})

\* C9: detect_jito_tip returns the sum of the balance increases d_i over the indices
\* with d_i >= 1000 on one of the 8 tip addresses
C9_TipIsSumOverTipAddresses == tip_pc = "done" => total_tip = SumIncrease(TipIndices)

\* C9 witness: +1000 on a tip address and +999 on a tip address returned 1000
C9_Witness ==
    /\ tip_pc = "done"
    /\ Len(account_keys) = 2
    /\ account_keys[1] \in JITO_TIP_ADDRESSES /\ account_keys[2] \in JITO_TIP_ADDRESSES
    /\ Increase(1) = 1000 /\ Increase(2) = 999
    /\ total_tip = 1000

\* ---- C10
\* C10: two runs of find_token_accounts on the same arguments return the same result
C10_SwapInferenceDeterministic == Len(swap_runs) = 2 => swap_runs[1] = swap_runs[2]

\* ---- C11
\* the step is a clear_completed call: a step that feeds no transaction
ClearStep == hist' = hist

\* the step feeds a transaction
FeedStep == Len(hist') = Len(hist) + 1

\* C11: clear_completed empties the completed list and leaves the open map and the
\* pending map as they were; an AutoSwapOut for a key with a pending pair appends
\* the Pattern of that pair, whatever was cleared before; and a step that feeds a
\* transaction leaves get_completed_patterns() as it was or appends one Pattern,
\* made of the transaction fed, at its end (completion order)
C11_ClearKeepsInFlight ==
    /\ [][ClearStep => (completed' = <<>> /\ UNCHANGED <<open_positions, in_progress>>)]_vars
    /\ [][(FeedStep /\ FedNow.instruction_type = "AutoSwapOut"
              /\ FedNow.sandwich_acc \in DOMAIN in_progress)
            => /\ Len(completed') = Len(completed) + 1
               /\ completed'[Len(completed')].transactions =
                     <<in_progress[FedNow.sandwich_acc][1],
                       in_progress[FedNow.sandwich_acc][2], FedNow>>]_vars
    /\ [][FeedStep =>
            \/ get_completed_patterns' = get_completed_patterns
            \/ /\ Len(get_completed_patterns') = Len(get_completed_patterns) + 1
               /\ SubSeq(get_completed_patterns', 1, Len(get_completed_patterns))
                     = get_completed_patterns
               /\ SwapOutLeg(get_completed_patterns'[Len(get_completed_patterns')]) = FedNow]_vars

\* C11 witness: both keys were paired, K1 was completed, the list was cleared while
\* the pair of K2 was pending, and the AutoSwapOut of K2 then completed its Pattern
C11_Witness ==
    /\ Len(hist) = 6
    /\ IsAt(1, "CreateSandwichV2", "K1") /\ IsAt(2, "CreateSandwichV2", "K2")
    /\ IsAt(3, "AutoSwapIn", "K1") /\ IsAt(4, "AutoSwapIn", "K2")
    /\ IsAt(5, "AutoSwapOut", "K1") /\ IsAt(6, "AutoSwapOut", "K2")
    /\ Len(completed) = 1
    /\ completed[1].transactions = <<hist[2], hist[4], hist[6]>>

\* ---- C12
\* a triple with one key, one block height, block times in sequence, one mint on
\* the swap-in leg and another mint on the swap-out leg
ScenarioB(c, si, so) ==
    /\ c.sandwich_acc = si.sandwich_acc /\ si.sandwich_acc = so.sandwich_acc
    /\ c.block_height = si.block_height /\ si.block_height = so.block_height
    /\ ~OutOfSequence(c, si, so)
    /\ si.from_mint = si.to_mint /\ so.from_mint = so.to_mint
    /\ so.from_mint # si.from_mint

\* the AutoSwapOut transactions that may be fed next
SwapOutsOfMint == { tx \in TxsMint : tx.instruction_type = "AutoSwapOut" }

\* Pattern::new succeeds on every scenario-B triple made of a pending pair and a
\* swap-out, the Pattern is valid, and its token profit is the difference of the amounts
ScenarioBSucceeds ==
    \A key \in DOMAIN in_progress : \A so \in SwapOutsOfMint :
        LET c  == in_progress[key][1]
            si == in_progress[key][2]
            p  == PatternNew(c, si, so)
        IN  ScenarioB(c, si, so) =>
               /\ p # NoPattern
               /\ is_valid(p)
               /\ get_token_profit(p) = so.from_amount - si.from_amount

\* C12 as stated: on scenario-B triples Pattern::new succeeds, is_valid() is true,
\* get_token_profit() is the difference of the amounts, and the token of the
\* completed Pattern is M, the mint of the swap-in leg
C12_CrossLegMintsTokenIsM ==
    /\ ScenarioBSucceeds
    /\ \A p \in CompletedSet :
          ScenarioB(CreateLeg(p), SwapInLeg(p), SwapOutLeg(p))
              => is_valid(p) /\ p.token = SwapInLeg(p).from_mint

\* C12 amended: the same, with the token of the Pattern being M when M is not
\* empty, and M' (the mint of the swap-out leg) when M is empty
C12_CrossLegMintsTokenIsFirstNonEmpty ==
    /\ ScenarioBSucceeds
    /\ \A p \in CompletedSet :
          ScenarioB(CreateLeg(p), SwapInLeg(p), SwapOutLeg(p))
              => /\ is_valid(p)
                 /\ SwapInLeg(p).from_mint # "" => p.token = SwapInLeg(p).from_mint
                 /\ SwapInLeg(p).from_mint = "" => p.token = SwapOutLeg(p).from_mint

\* C12 witness: a Pattern with mint M1 on the swap-in leg and M2 on the swap-out leg
\* was completed; it is valid, its token is M1 and its profit is 150 - 100
C12_Witness ==
    \E p \in CompletedSet :
        /\ SwapInLeg(p).from_mint = "M1" /\ SwapInLeg(p).to_mint = "M1"
        /\ SwapOutLeg(p).from_mint = "M2" /\ SwapOutLeg(p).to_mint = "M2"
        /\ SwapInLeg(p).from_amount = 100 /\ SwapOutLeg(p).from_amount = 150
        /\ is_valid(p) /\ p.token = "M1" /\ get_token_profit(p) = 50

\* ---- C15
\* the history is AutoSwapIn(K1), CreateSandwichV2(K1), AutoSwapOut(K1)
SwapInBeforeCreate ==
    /\ Len(hist) = 3
    /\ IsAt(1, "AutoSwapIn", "K1") /\ IsAt(2, "CreateSandwichV2", "K1")
    /\ IsAt(3, "AutoSwapOut", "K1")

\* C15: an AutoSwapIn for a key of the open map removes the Create from the open map
\* and makes (Create, SwapIn) the pending pair of the key; an AutoSwapIn for any other
\* key changes none of the open map, the pending map and the completed list; and
\* after AutoSwapIn(K), CreateSandwichV2(K), AutoSwapOut(K) nothing is completed and
\* the Create is still in the open map
C15_SwapInPairsOnlyOpenCreate ==
    /\ [][(FeedStep /\ FedNow.instruction_type = "AutoSwapIn") =>
            IF FedNow.sandwich_acc \in DOMAIN open_positions
            THEN /\ FedNow.sandwich_acc \notin DOMAIN open_positions'
                 /\ \A k \in DOMAIN open_positions \ {FedNow.sandwich_acc} :
                       k \in DOMAIN open_positions' /\ open_positions'[k] = open_positions[k]
                 /\ DOMAIN open_positions' \subseteq DOMAIN open_positions
                 /\ FedNow.sandwich_acc \in DOMAIN in_progress'
                 /\ in_progress'[FedNow.sandwich_acc] =
                       <<open_positions[FedNow.sandwich_acc], FedNow>>
                 /\ completed' = completed
            ELSE UNCHANGED <<open_positions, in_progress, completed>>]_vars
    /\ [](SwapInBeforeCreate =>
            /\ completed = <<>>
            /\ "K1" \in DOMAIN open_positions
            /\ open_positions["K1"] = hist[2]
            /\ "K1" \notin DOMAIN in_progress)

\* C15 witness: AutoSwapIn(K1) was discarded, CreateSandwichV2(K1) and AutoSwapOut(K1)
\* left the Create open with nothing completed, and a second AutoSwapIn(K1) then
\* moved that Create from the open map into the pending pair
C15_Witness ==
    /\ Len(hist) = 4
    /\ IsAt(1, "AutoSwapIn", "K1") /\ IsAt(2, "CreateSandwichV2", "K1")
    /\ IsAt(3, "AutoSwapOut", "K1") /\ IsAt(4, "AutoSwapIn", "K1")
    /\ completed = <<>>
    /\ "K1" \notin DOMAIN open_positions
    /\ "K1" \in DOMAIN in_progress /\ in_progress["K1"] = <<hist[2], hist[4]>>

\* ---- C16
\* Pattern::new gives no Pattern for the pair and the swap-out for one of the two
\* reasons of the claim: block times out of sequence, or both from_mint empty
PatternNewFails(pair, so) ==
    \/ OutOfSequence(pair[1], pair[2], so)
    \/ pair[2].from_mint = "" /\ so.from_mint = ""

\* the step feeds an AutoSwapOut for a key with a pending pair and Pattern::new fails
FailedSwapOutStep ==
    /\ FeedStep
    /\ FedNow.instruction_type = "AutoSwapOut"
    /\ FedNow.sandwich_acc \in DOMAIN in_progress
    /\ PatternNewFails(in_progress[FedNow.sandwich_acc], FedNow)

\* hist[i] is of kind k1 or k2 and of the key, for some i strictly between a and b
KindBetween(a, b, k1, k2, key) ==
    \E i \in (a + 1)..(b - 1) : IsAt(i, k1, key) \/ IsAt(i, k2, key)

\* every completed Pattern is made of a Create no AutoSwapIn of the key had paired
\* before, of the AutoSwapIn that paired it, and of the first AutoSwapOut of the key
\* after that AutoSwapIn
UsesFreshPair ==
    \A p \in CompletedSet :
        \E i, j, k \in 1..Len(hist) :
            /\ i < j /\ j < k
            /\ hist[i] = CreateLeg(p) /\ hist[j] = SwapInLeg(p) /\ hist[k] = SwapOutLeg(p)
            /\ ~KindBetween(i, j, "CreateSandwichV2", "AutoSwapIn", CreateLeg(p).sandwich_acc)
            /\ ~KindBetween(j, k, "AutoSwapOut", "AutoSwapOut", CreateLeg(p).sandwich_acc)

\* C16: an AutoSwapOut for a key with a pending pair on which Pattern::new fails
\* removes the pending entry of the key and leaves the completed list as it was;
\* the key gets a pending pair again only by an AutoSwapIn that pairs a Create of
\* the open map; an AutoSwapOut for a key without a pending pair completes nothing;
\* and no completed Pattern is made of a pair an earlier AutoSwapOut had dropped
C16_FailedPairDroppedNotRetried ==
    /\ [][FailedSwapOutStep =>
            /\ FedNow.sandwich_acc \notin DOMAIN in_progress'
            /\ completed' = completed]_vars
    /\ [][\A key \in DOMAIN in_progress' \ DOMAIN in_progress :
            /\ FeedStep
            /\ FedNow.instruction_type = "AutoSwapIn" /\ FedNow.sandwich_acc = key
            /\ key \in DOMAIN open_positions
            /\ in_progress'[key] = <<open_positions[key], FedNow>>]_vars
    /\ [][(FeedStep /\ FedNow.instruction_type = "AutoSwapOut"
              /\ FedNow.sandwich_acc \notin DOMAIN in_progress)
            => completed' = completed]_vars
    /\ []UsesFreshPair

\* C16 witness: Create, AutoSwapIn with an empty from_mint, an AutoSwapOut with an
\* empty from_mint (Pattern::new fails), then an AutoSwapOut with mint M1 that would
\* have made a Pattern with the dropped pair: nothing is completed, nothing is pending
C16_Witness ==
    /\ Len(hist) = 4
    /\ IsAt(1, "CreateSandwichV2", "K1") /\ IsAt(2, "AutoSwapIn", "K1")
    /\ IsAt(3, "AutoSwapOut", "K1") /\ IsAt(4, "AutoSwapOut", "K1")
    /\ hist[2].from_mint = "" /\ hist[3].from_mint = "" /\ hist[4].from_mint = "M1"
    /\ ~OutOfSequence(hist[1], hist[2], hist[4])
    /\ PatternNew(hist[1], hist[2], hist[4]) # NoPattern
    /\ completed = <<>>
    /\ "K1" \notin DOMAIN in_progress

\* ---- C17
\* the pending pair of the key is removed or replaced by the step
PendingPairGone(key) ==
    key \notin DOMAIN in_progress' \/ in_progress'[key] # in_progress[key]

\* C17 as stated: no key is in the open map and in the pending map at once, and a
\* pending pair is removed only by an AutoSwapOut for its key, never replaced by
\* another pair
C17_OneStatePerKey ==
    /\ [](DOMAIN open_positions \cap DOMAIN in_progress = {})
    /\ [][\A key \in DOMAIN in_progress :
            PendingPairGone(key) =>
               /\ FeedStep
               /\ FedNow.instruction_type = "AutoSwapOut" /\ FedNow.sandwich_acc = key
               /\ key \notin DOMAIN in_progress']_vars

\* C17 amended: a key is in both maps only when its open Create was fed after the
\* AutoSwapIn of its pending pair; the AutoSwapIn that pairs a Create takes the key
\* out of the open map and makes (Create, AutoSwapIn) the pending pair of the key,
\* replacing a pair already pending; and a pending pair goes only by an AutoSwapOut
\* for its key, which removes it, or by such an AutoSwapIn for its key
C17_PendingRemovedOrOverwritten ==
    /\ [](\A key \in DOMAIN open_positions \cap DOMAIN in_progress :
            \E i, j \in 1..Len(hist) :
                /\ i < j
                /\ hist[i] = in_progress[key][2]
                /\ hist[j] = open_positions[key])
    /\ [][(FeedStep /\ FedNow.instruction_type = "AutoSwapIn"
              /\ FedNow.sandwich_acc \in DOMAIN open_positions) =>
            /\ FedNow.sandwich_acc \notin DOMAIN open_positions'
            /\ FedNow.sandwich_acc \in DOMAIN in_progress'
            /\ in_progress'[FedNow.sandwich_acc] =
                  <<open_positions[FedNow.sandwich_acc], FedNow>>]_vars
    /\ [][\A key \in DOMAIN in_progress :
            PendingPairGone(key) =>
               /\ FeedStep
               /\ FedNow.sandwich_acc = key
               /\ \/ /\ FedNow.instruction_type = "AutoSwapOut"
                     /\ key \notin DOMAIN in_progress'
                  \/ /\ FedNow.instruction_type = "AutoSwapIn"
                     /\ key \in DOMAIN open_positions
                     /\ key \in DOMAIN in_progress']_vars

\* C17 witness: Create(K1) by one signer, AutoSwapIn(K1), Create(K1) by another
\* signer (K1 is then in both maps), AutoSwapIn(K1): the pending pair of K1 is now
\* made of the second Create, the first pair is gone without any AutoSwapOut
C17_Witness ==
    /\ Len(hist) = 4
    /\ IsAt(1, "CreateSandwichV2", "K1") /\ IsAt(2, "AutoSwapIn", "K1")
    /\ IsAt(3, "CreateSandwichV2", "K1") /\ IsAt(4, "AutoSwapIn", "K1")
    /\ hist[1].signer # hist[3].signer
    /\ "K1" \notin DOMAIN open_positions
    /\ "K1" \in DOMAIN in_progress /\ in_progress["K1"] = <<hist[3], hist[4]>>
    /\ completed = <<>>

\* ---- C13
\* the instruction names of the recognised target-program instructions of the
\* transaction: the instruction's program_id_index is the index of the target
\* program among the account keys and its first 8 bytes are a known discriminator
RecognisedNames(tx) ==
    { get_instruction_map[encode(SubSeq(tx.instructions[k].data, 1, 8))] :
        k \in { k \in 1..Len(tx.instructions) :
                  /\ TargetProgramIdx(tx) = Some(tx.instructions[k].program_id_index)
                  /\ Len(tx.instructions[k].data) >= 8
                  /\ encode(SubSeq(tx.instructions[k].data, 1, 8)) \in DOMAIN get_instruction_map } }

\* the instruction names of the classified transactions found
FoundNames == { found_txs[n].instruction_type : n \in 1..Len(found_txs) }

\* C13: when the signer of the transaction resolves to the empty string,
\* find_known_instruction returns a ClassifiedTransaction for each recognised
\* target-program instruction, each with an empty signer and lamport_change 0
C13_EmptySignerStillClassified ==
    (known_pc = "done" /\ SignerOf(known_tx) = "") =>
        /\ RecognisedNames(known_tx) \subseteq FoundNames
        /\ \A n \in 1..Len(found_txs) :
              found_txs[n].signer = "" /\ found_txs[n].lamport_change = 0

====
